---- MODULE Spec2Model ----
(***************************************************************************)
(* Model of the process-transcript serverless function                     *)
(* (meeting-transcript-app/serverlessFunctions/process-transcript/src/     *)
(* index.ts): the webhook orchestrator main, the transcript analyzer, the  *)
(* CRM writer (note, tasks, links), the workspace-member lookup and the    *)
(* task deduplicator areSimilarTasks.                                      *)
(*                                                                         *)
(* JavaScript strings that the code inspects character by character        *)
(* (titles, names, dates) are sequences of one-character strings.  Values  *)
(* the code only tests for truthiness, type and equality (token, secret,   *)
(* transcript, ids, environment variables) are atoms.                      *)
(***************************************************************************)
EXTENDS Integers, Sequences, FiniteSets, TLC

VARIABLES
    env,                \* process.env of the invocation
    params,             \* the webhook payload handed to main
    pc,                 \* position of main in its chain of awaits
    analysis,           \* value returned by analyzeTranscript
    noteId,             \* id extracted from the note response
    allTasks,           \* createAllTasks: the candidate list
    idx,                \* createAllTasks: index of the candidate examined
    taskIds,            \* createAllTasks: ids pushed so far
    createdTasks,       \* createAllTasks: the Set of created titles, in insertion order
    duplicatesSkipped,  \* createAllTasks: counter
    taskData,           \* createTaskInTwenty: body of the task request being built
    pendingTaskId,      \* createTaskInTwenty: id extracted from the task response
    outstanding,        \* the request awaited, NoRequest when none
    calls,              \* history: external requests issued, in order
    failedTasks,        \* history: candidates whose creation threw
    response,           \* object returned by main
    completion,         \* answer of the completion service, <<>> before it arrives
    simPc,              \* areSimilarTasks harness: position
    simArgs,            \* areSimilarTasks harness: <<task1, task2>>
    simResult,          \* areSimilarTasks harness: returned boolean
    resolvePc,          \* name matcher harness: position
    resolveArgs,        \* name matcher harness: <<edges, name>>
    resolveResult       \* name matcher harness: returned id or NotFound

pipeVars == <<env, params, pc, analysis, noteId, allTasks, idx, taskIds,
              createdTasks, duplicatesSkipped, taskData, pendingTaskId,
              outstanding, calls, failedTasks, response, completion>>
simVars == <<simPc, simArgs, simResult>>
resolveVars == <<resolvePc, resolveArgs, resolveResult>>
vars == <<pipeVars, simVars, resolveVars>>

-----------------------------------------------------------------------------
(* Bounds of the model *)

\* most candidate tasks (action items plus commitments) in one analysis
MaxTasks == 2
\* longest title enumerated exhaustively for the areSimilarTasks harness
MaxTitleLen == 3
\* longest member list the name matcher is applied to
MaxMembers == 2

-----------------------------------------------------------------------------
(* JavaScript strings *)

\* upper-case letters and their lower-case forms (String.prototype.toLowerCase)
LowerOf == [A |-> "a", B |-> "b", C |-> "c", D |-> "d", E |-> "e", F |-> "f",
            G |-> "g", H |-> "h", I |-> "i", J |-> "j", K |-> "k", L |-> "l",
            M |-> "m", N |-> "n", O |-> "o", P |-> "p", Q |-> "q", R |-> "r",
            S |-> "s", T |-> "t", U |-> "u", V |-> "v", W |-> "w", X |-> "x",
            Y |-> "y", Z |-> "z"]

toLowerCase(str) ==
    [i \in 1..Len(str) |-> IF str[i] \in DOMAIN LowerOf THEN LowerOf[str[i]] ELSE str[i]]

\* the character class [a-z0-9]
AlnumLower == {"a","b","c","d","e","f","g","h","i","j","k","l","m","n","o","p","q",
               "r","s","t","u","v","w","x","y","z",
               "0","1","2","3","4","5","6","7","8","9"}

\* the character class \s, for the characters the model uses
Whitespace == {" ", "\t", "\n"}

\* String.prototype.includes: sub occurs in str as a contiguous run
includes(str, sub) ==
    \E i \in 0..(Len(str) - Len(sub)) : SubSeq(str, i + 1, i + Len(sub)) = sub

\* str.split(/\s+/): the pieces between maximal runs of whitespace; a run at
\* either end leaves an empty piece there, and "" splits to [""]
RECURSIVE SplitFrom(_, _, _, _)
SplitFrom(str, i, cur, acc) ==
    IF i > Len(str) THEN Append(acc, cur)
    ELSE IF str[i] \in Whitespace
         THEN IF i > 1 /\ str[i - 1] \in Whitespace
              THEN SplitFrom(str, i + 1, cur, acc)
              ELSE SplitFrom(str, i + 1, <<>>, Append(acc, cur))
         ELSE SplitFrom(str, i + 1, Append(cur, str[i]), acc)

splitWhitespace(str) == SplitFrom(str, 1, <<>>, <<>>)

-----------------------------------------------------------------------------
(* Task deduplicator: areSimilarTasks *)

normalize_caseSensitive(str) ==
    SelectSeq(str, LAMBDA c : c \in AlnumLower \cup DOMAIN LowerOf)

\* normalize = str.toLowerCase().replace(/[^a-z0-9]/g, '')
normalize(str) == SelectSeq(toLowerCase(str), LAMBDA c : c \in AlnumLower)

\* normalized.split(/\s+/).filter(w => w.length > 3)
significantWords(normalized) ==
    SelectSeq(splitWhitespace(normalized), LAMBDA w : Len(w) > 3)

commonWords_all(words1, words2) == words1

\* words1.filter(w => words2.includes(w))
commonWords(words1, words2) ==
    SelectSeq(words1, LAMBDA w : \E j \in 1..Len(words2) : words2[j] = w)

\* (commonWords.length * 2) / (words1.length + words2.length) > 0.7, in integers
overlapExceeds(words1, words2) ==
    20 * Len(commonWords(words1, words2)) > 7 * (Len(words1) + Len(words2))

containsEither_oneWay(normalized1, normalized2) == includes(normalized1, normalized2)

\* normalized1.includes(normalized2) || normalized2.includes(normalized1)
containsEither(normalized1, normalized2) ==
    includes(normalized1, normalized2) \/ includes(normalized2, normalized1)

\* the statements after the containment test
overlapBranch(normalized1, normalized2) ==
    LET words1 == significantWords(normalized1)
        words2 == significantWords(normalized2)
    IN  IF Len(words1) = 0 \/ Len(words2) = 0 THEN FALSE
        ELSE overlapExceeds(words1, words2)

areSimilarTasks(task1, task2) ==
    LET normalized1 == normalize(task1)
        normalized2 == normalize(task2)
    IN  IF containsEither(normalized1, normalized2) THEN TRUE
        ELSE overlapBranch(normalized1, normalized2)

-----------------------------------------------------------------------------
(* Titles used as inputs *)

DraftTheDeck == <<"D","r","a","f","t"," ","t","h","e"," ","d","e","c","k">>
DraftTheDeckForReview == <<"D","r","a","f","t"," ","t","h","e"," ","d","e","c","k"," ","f","o","r"," ","r","e","v","i","e","w">>
FinalizeInvestorDeck == <<"F","i","n","a","l","i","z","e"," ","i","n","v","e","s","t","o","r"," ","d","e","c","k">>
SendFinalSalesReport == <<"S","e","n","d"," ","f","i","n","a","l"," ","s","a","l","e","s"," ","r","e","p","o","r","t">>
SendFinalSalesBrief == <<"s","e","n","d"," ","f","i","n","a","l"," ","s","a","l","e","s"," ","b","r","i","e","f">>
ReviewSecurityProtocols == <<"R","e","v","i","e","w"," ","s","e","c","u","r","i","t","y"," ","p","r","o","t","o","c","o","l","s">>
\* ten words each, seven of them shared: overlap 14/20
SevenOfTenA == <<"a","a","a","a"," ","a","a","a","b"," ","a","a","b","a"," ","a","a","b","b"," ","a","b","a","a"," ","a","b","a","b"," ","a","b","b","a"," ","a","b","b","b"," ","b","a","a","a"," ","b","a","a","b">>
SevenOfTenB == <<"a","a","a","a"," ","a","a","a","b"," ","a","a","b","a"," ","a","a","b","b"," ","a","b","a","a"," ","a","b","a","b"," ","a","b","b","a"," ","b","a","b","a"," ","b","a","b","b"," ","b","b","a","a">>

CallBobTitle == <<"C","a","l","l"," ","B","o","b">>

NamedTitles == {DraftTheDeck, DraftTheDeckForReview, FinalizeInvestorDeck,
                SendFinalSalesReport, SendFinalSalesBrief, ReviewSecurityProtocols,
                SevenOfTenA, SevenOfTenB, CallBobTitle}

SimAlphabet == {"a", "b", "A", " ", "-"}

BoundedTitles == UNION {[1..n -> SimAlphabet] : n \in 0..MaxTitleLen}

TitlePool == NamedTitles \cup BoundedTitles

-----------------------------------------------------------------------------
(* JavaScript values *)

\* atoms: values the code only tests for truthiness, type and equality
Undefined == "<undefined>"
NotAString == "<number>"
Truthy(v) == v # Undefined /\ v # ""
IsString(v) == v # Undefined /\ v # NotAString

\* an absent (undefined) character string: a title, a name or a date left out
UndefinedStr == <<"<undefined>">>
TruthyStr(str) == str # UndefinedStr /\ str # <<>>

\* value || ''
orEmpty(str) == IF TruthyStr(str) THEN str ELSE <<>>

\* String.prototype.trim
RECURSIVE trimStart(_)
trimStart(str) ==
    IF Len(str) > 0 /\ Head(str) \in Whitespace THEN trimStart(Tail(str)) ELSE str

RECURSIVE trimEnd(_)
trimEnd(str) ==
    IF Len(str) > 0 /\ str[Len(str)] \in Whitespace
    THEN trimEnd(SubSeq(str, 1, Len(str) - 1)) ELSE str

trim(str) == trimEnd(trimStart(str))

-----------------------------------------------------------------------------
(* Name matcher: the tiers of lookupWorkspaceMemberByName *)

NotFound == "<null>"

\* `${firstName} ${lastName}`.trim().toLowerCase()
fullNameOf(node) ==
    toLowerCase(trim(orEmpty(node.firstName) \o <<" ">> \o orEmpty(node.lastName)))

exactMatch(node, searchName) == fullNameOf(node) = searchName
firstNameMatch(node, searchName) == toLowerCase(orEmpty(node.firstName)) = searchName
lastNameMatch(node, searchName) == toLowerCase(orEmpty(node.lastName)) = searchName
partialMatch(node, searchName) ==
    includes(fullNameOf(node), searchName) \/ includes(searchName, fullNameOf(node))

firstMatching_last(edges, hit) ==
    IF \E i \in 1..Len(edges) : hit[i]
    THEN edges[CHOOSE i \in 1..Len(edges) :
                   hit[i] /\ \A j \in (i + 1)..Len(edges) : ~hit[j]].id
    ELSE NotFound

\* one `for (const edge of edges)` loop: the id of the first edge that
\* matches, where hit[i] tells whether edges[i] passes the test of the loop
firstMatching(edges, hit) ==
    IF \E i \in 1..Len(edges) : hit[i]
    THEN edges[CHOOSE i \in 1..Len(edges) :
                   hit[i] /\ \A j \in 1..(i - 1) : ~hit[j]].id
    ELSE NotFound

matchMember_singlePass(edges, name) ==
    LET searchName == toLowerCase(trim(name))
    IN  firstMatching(edges,
            [i \in 1..Len(edges) |->
                \/ exactMatch(edges[i], searchName)
                \/ firstNameMatch(edges[i], searchName)
                \/ lastNameMatch(edges[i], searchName)
                \/ partialMatch(edges[i], searchName)])

\* the body of the try block once the member list has arrived
matchMember(edges, name) ==
    IF Len(edges) = 0 THEN NotFound
    ELSE LET searchName == toLowerCase(trim(name))
             exact == firstMatching(edges,
                          [i \in 1..Len(edges) |-> exactMatch(edges[i], searchName)])
             first == firstMatching(edges,
                          [i \in 1..Len(edges) |-> firstNameMatch(edges[i], searchName)])
             last == firstMatching(edges,
                          [i \in 1..Len(edges) |-> lastNameMatch(edges[i], searchName)])
             partial == firstMatching(edges,
                          [i \in 1..Len(edges) |-> partialMatch(edges[i], searchName)])
         IN  IF exact # NotFound THEN exact
             ELSE IF first # NotFound THEN first
             ELSE IF last # NotFound THEN last
             ELSE partial

-----------------------------------------------------------------------------
(* Due dates: new Date(dueDate) and toISOString *)

DigitValue == [c \in {"0","1","2","3","4","5","6","7","8","9"} |->
                 CASE c = "0" -> 0 [] c = "1" -> 1 [] c = "2" -> 2 [] c = "3" -> 3
                   [] c = "4" -> 4 [] c = "5" -> 5 [] c = "6" -> 6 [] c = "7" -> 7
                   [] c = "8" -> 8 [] c = "9" -> 9]

\* the date-only form YYYY-MM-DD, the one form of the inputs that Date parses
isValidDate(str) ==
    /\ Len(str) = 10
    /\ str[5] = "-" /\ str[8] = "-"
    /\ \A i \in {1, 2, 3, 4, 6, 7, 9, 10} : str[i] \in DOMAIN DigitValue
    /\ LET month == 10 * DigitValue[str[6]] + DigitValue[str[7]]
           day == 10 * DigitValue[str[9]] + DigitValue[str[10]]
       IN  month \in 1..12 /\ day \in 1..31

\* date.toISOString() of a date-only input: midnight UTC
toISOString(str) == str \o <<"T","0","0",":","0","0",":","0","0",".","0","0","0","Z">>

Absent == <<"<absent>">>

dueAtOf_unchecked(dueDate) ==
    IF TruthyStr(dueDate) THEN toISOString(dueDate) ELSE Absent

\* lines 342-347: dueAt is set only for a truthy dueDate that parses
dueAtOf(dueDate) ==
    IF TruthyStr(dueDate) /\ isValidDate(dueDate) THEN toISOString(dueDate) ELSE Absent

-----------------------------------------------------------------------------
(* Inputs of one invocation *)

Deck == <<"D","e","c","k">>
DeckBang == <<"d","e","c","k","!">>
CallBob == CallBobTitle
LowerDeck == <<"d","e","c","k">>
Sync == <<"s","y","n","c">>
Dylan == <<"D","y","l","a","n">>
Field == <<"F","i","e","l","d">>
Forsythe == <<"F","o","r","s","y","t","h","e">>
Dario == <<"D","a","r","i","o">>
NextMonday == <<"n","e","x","t"," ","M","o","n","d","a","y">>
IsoDate == <<"2","0","2","5","-","1","1","-","0","4">>
FollowUpPrefix == <<"F","o","l","l","o","w"," ","u","p",":"," ">>
UndefinedText == <<"u","n","d","e","f","i","n","e","d">>
FinalizeInvestorDeckLayout == <<"f","i","n","a","l","i","z","e"," ","i","n","v","e","s","t","o","r"," ","d","e","c","k"," ","l","a","y","o","u","t">>
\* a title without a letter or digit, and an assignee of spaces only
Punctuation == <<"?","!">>
Spaces == <<" "," ">>
\* the date-only form with a month that does not exist
BadIsoDate == <<"2","0","2","5","-","1","3","-","0","4">>

Secret == "s3cret"
SecretValues == {Undefined, "", Secret}
TokenValues == {Undefined, "", Secret, "wrong"}
FieldValues == {Undefined, "", NotAString, "text"}
ConfigValues == {Undefined, "set"}

Envs == [WEBHOOK_SECRET_TOKEN : SecretValues, OPENAI_API_KEY : ConfigValues,
         GROQ_API_BASE_URL : ConfigValues, TWENTY_API_KEY : ConfigValues,
         TWENTY_API_URL : ConfigValues]

Payloads == [token : TokenValues, transcript : FieldValues, relatedPersonId : FieldValues]

\* action items the model service may return (the description is carried
\* through to the request body unread and is left out)
ActionItemPool ==
    { [title |-> Deck, assignee |-> Dylan, dueDate |-> IsoDate],
      [title |-> DeckBang, assignee |-> UndefinedStr, dueDate |-> NextMonday],
      [title |-> CallBob, assignee |-> Dario, dueDate |-> UndefinedStr],
      [title |-> UndefinedStr, assignee |-> UndefinedStr, dueDate |-> UndefinedStr],
      [title |-> FinalizeInvestorDeck, assignee |-> Spaces, dueDate |-> <<>>],
      [title |-> Punctuation, assignee |-> UndefinedStr, dueDate |-> BadIsoDate] }

CommitmentPool ==
    { [person |-> Dylan, commitment |-> LowerDeck, dueDate |-> UndefinedStr],
      [person |-> Dario, commitment |-> Sync, dueDate |-> NextMonday],
      [person |-> Dylan, commitment |-> FinalizeInvestorDeckLayout, dueDate |-> IsoDate] }

\* pairs <<actionItems, commitments>> of at most MaxTasks entries in all
ItemLists(most) ==
    UNION { [1..n -> ActionItemPool] \X [1..m -> CommitmentPool] :
                <<n, m>> \in {q \in (0..most) \X (0..most) : q[1] + q[2] <= most} }

AnalysisFields == {"summary", "keyPoints", "actionItems", "commitments"}

\* JSON values that JSON.parse(content) may yield: objects of the expected
\* shape, and objects with one field of the shape left out
WellShapedContents ==
    { [present |-> AnalysisFields, actionItems |-> l[1], commitments |-> l[2]] :
          l \in ItemLists(MaxTasks) }

IllShapedContents ==
    { [present |-> AnalysisFields \ {f},
       actionItems |-> IF f = "actionItems" THEN <<>> ELSE l[1],
       commitments |-> IF f = "commitments" THEN <<>> ELSE l[2]] :
          f \in AnalysisFields, l \in ItemLists(1) }

ParsedContents == WellShapedContents \cup IllShapedContents

WellShaped(content) == content.present = AnalysisFields

\* member lists the CRM may answer the GraphQL query with
MemberListPool ==
    { <<>>,
      << [id |-> "m1", firstName |-> Dylan, lastName |-> Field],
         [id |-> "m2", firstName |-> Dylan, lastName |-> Forsythe] >> }

-----------------------------------------------------------------------------
(* State of main between awaits *)

NoRequest == "none"
NoNote == "<no note>"
NoTask == 0
NoTaskData == [title |-> UndefinedStr, assigneeId |-> NotFound, dueAt |-> Absent]
Pending == [success |-> FALSE, error |-> "<pending>", noteId |-> NoNote,
            taskIds |-> <<>>, tasksCreated |-> 0, duplicatesSkipped |-> 0,
            actionItemsProcessed |-> 0, commitmentsProcessed |-> 0]

\* lines 604-608: the object the catch block of main returns
failureResponse(errorMessage) == [Pending EXCEPT !.error = errorMessage]

\* lines 588-600: the object main returns after createAllTasks
successResponse ==
    [success |-> TRUE, error |-> "<none>", noteId |-> noteId,
     taskIds |-> taskIds, tasksCreated |-> Len(taskIds),
     duplicatesSkipped |-> duplicatesSkipped,
     actionItemsProcessed |-> Len(analysis[1].actionItems),
     commitmentsProcessed |-> Len(analysis[1].commitments)]

\* one external request: its kind, the candidate it is for (0 when none), how
\* it ended, and for a task request the assigneeId and dueAt of its body
Call(kind, cand, assigneeId, dueAt) ==
    [kind |-> kind, cand |-> cand, result |-> "pending",
     assigneeId |-> assigneeId, dueAt |-> dueAt]

InitPipe(e, p) ==
    /\ env = e
    /\ params = p
    /\ completion = <<>>
    /\ analysis = <<>>
    /\ noteId = NoNote
    /\ allTasks = <<>>
    /\ idx = 0
    /\ taskIds = <<>>
    /\ createdTasks = <<>>
    /\ duplicatesSkipped = 0
    /\ taskData = NoTaskData
    /\ pendingTaskId = NoTask
    /\ outstanding = NoRequest
    /\ calls = <<>>
    /\ failedTasks = <<>>
    /\ response = Pending

IdleEnv == [WEBHOOK_SECRET_TOKEN |-> Undefined, OPENAI_API_KEY |-> Undefined,
            GROQ_API_BASE_URL |-> Undefined, TWENTY_API_KEY |-> Undefined,
            TWENTY_API_URL |-> Undefined]
IdlePayload == [token |-> Undefined, transcript |-> Undefined, relatedPersonId |-> Undefined]

\* an invocation of main with any payload under any environment
Init ==
    /\ \E e \in Envs, p \in Payloads : InitPipe(e, p)
    /\ pc = "start"
    /\ simPc = "off" /\ simArgs = <<<<>>, <<>>>> /\ simResult = FALSE
    /\ resolvePc = "off" /\ resolveArgs = <<<<>>, <<>>>> /\ resolveResult = NotFound

-----------------------------------------------------------------------------
(* Steps shared by the handlers *)

\* the catch block of main: every throw that reaches it ends the invocation
Throw(errorMessage) ==
    /\ pc' = "done"
    /\ outstanding' = NoRequest
    /\ response' = failureResponse(errorMessage)

\* an awaited request goes out
Issue(log, kind, cand, assigneeId, dueAt, nextPc) ==
    /\ calls' = Append(log, Call(kind, cand, assigneeId, dueAt))
    /\ outstanding' = kind
    /\ pc' = nextPc
    /\ response' = response

\* the request awaited has been answered
Resolved(result) == [calls EXCEPT ![Len(calls)].result = result]

\* getTwentyApiConfig: the error it throws, "<none>" when it returns
getTwentyApiConfig(e) ==
    IF ~Truthy(e.TWENTY_API_KEY) THEN "TWENTY_API_KEY is not set"
    ELSE IF ~Truthy(e.TWENTY_API_URL) THEN "TWENTY_API_URL is not set"
    ELSE "<none>"

-----------------------------------------------------------------------------
(* main, up to the completion request *)

authorized_anyToken(e, p) == Truthy(e.WEBHOOK_SECRET_TOKEN) /\ Truthy(p.token)

\* line 543, negated: the request passes the token check
authorized(e, p) ==
    ~(\/ ~Truthy(e.WEBHOOK_SECRET_TOKEN)
      \/ ~Truthy(p.token)
      \/ p.token # e.WEBHOOK_SECRET_TOKEN)

\* lines 470-473: analyzeTranscript throws before it calls the model service
analyzerConfigError(e) ==
    IF ~Truthy(e.GROQ_API_BASE_URL) THEN "GROQ_API_BASE_URL is not set" ELSE "<none>"

validationError_transcriptFirst(e, p) ==
    IF ~Truthy(p.transcript) \/ ~IsString(p.transcript) THEN "Transcript is required"
    ELSE IF ~authorized(e, p) THEN "Unauthorized"
    ELSE IF ~Truthy(p.relatedPersonId) \/ ~IsString(p.relatedPersonId)
         THEN "relatedPersonId is required"
    ELSE IF ~Truthy(e.OPENAI_API_KEY) THEN "OPENAI_API_KEY is not set"
    ELSE "<none>"

\* lines 539-560: the first check of main that fails, "<none>" when all pass
validationError(e, p) ==
    IF ~authorized(e, p) THEN "Unauthorized"
    ELSE IF ~Truthy(p.transcript) \/ ~IsString(p.transcript) THEN "Transcript is required"
    ELSE IF ~Truthy(p.relatedPersonId) \/ ~IsString(p.relatedPersonId)
         THEN "relatedPersonId is required"
    ELSE IF ~Truthy(e.OPENAI_API_KEY) THEN "OPENAI_API_KEY is not set"
    ELSE "<none>"

Start ==
    /\ pc = "start"
    /\ IF validationError(env, params) # "<none>"
       THEN Throw(validationError(env, params)) /\ calls' = calls
       ELSE IF analyzerConfigError(env) # "<none>"
            THEN Throw(analyzerConfigError(env)) /\ calls' = calls
            ELSE Issue(calls, "model", 0, NotFound, Absent, "await_model")
    /\ UNCHANGED <<env, params, analysis, noteId, allTasks, idx, taskIds, createdTasks,
                   duplicatesSkipped, taskData, pendingTaskId, failedTasks,
                   completion, simVars, resolveVars>>

-----------------------------------------------------------------------------
(* analyzeTranscript after the completion arrives, and main up to the note request *)

EmptyContent == [present |-> {}, actionItems |-> <<>>, commitments |-> <<>>]
EmptyAnalysis == [present |-> AnalysisFields, actionItems |-> <<>>, commitments |-> <<>>]

Completions ==
    { [kind |-> k, content |-> EmptyContent] : k \in {"error", "noContent", "notJson"} }
    \cup { [kind |-> "json", content |-> a] : a \in ParsedContents }

analyzeTranscript_fallback(c) ==
    IF c.kind = "error" THEN [threw |-> "Model call failed", value |-> EmptyContent]
    ELSE IF c.kind = "noContent" THEN [threw |-> "No response from AI API", value |-> EmptyContent]
    ELSE IF c.kind = "notJson" THEN [threw |-> "<none>", value |-> EmptyAnalysis]
    ELSE [threw |-> "<none>", value |-> c.content]

\* lines 504-526: the awaited call throws, the content is empty, JSON.parse
\* throws, or the parsed value is returned as it is
analyzeTranscript(c) ==
    IF c.kind = "error" THEN [threw |-> "Model call failed", value |-> EmptyContent]
    ELSE IF c.kind = "noContent" THEN [threw |-> "No response from AI API", value |-> EmptyContent]
    ELSE IF c.kind = "notJson" THEN [threw |-> "SyntaxError", value |-> EmptyContent]
    ELSE [threw |-> "<none>", value |-> c.content]

\* line 567 reads analysis.actionItems.length and analysis.commitments.length;
\* line 223 reads the CRM configuration; line 170 calls keyPoints.map
beforeNoteError(e, a) ==
    IF "actionItems" \notin a.present \/ "commitments" \notin a.present THEN "TypeError"
    ELSE IF getTwentyApiConfig(e) # "<none>" THEN getTwentyApiConfig(e)
    ELSE IF "keyPoints" \notin a.present THEN "TypeError"
    ELSE "<none>"

ModelResponds ==
    /\ pc = "await_model"
    /\ \E c \in Completions :
         LET r == analyzeTranscript(c)
             log == Resolved(c.kind)
         IN  /\ completion' = <<c>>
             /\ IF r.threw # "<none>"
                THEN analysis' = analysis /\ Throw(r.threw) /\ calls' = log
                ELSE /\ analysis' = <<r.value>>
                     /\ IF beforeNoteError(env, r.value) # "<none>"
                        THEN Throw(beforeNoteError(env, r.value)) /\ calls' = log
                        ELSE Issue(log, "note", 0, NotFound, Absent, "await_note")
    /\ UNCHANGED <<env, params, noteId, allTasks, idx, taskIds, createdTasks,
                   duplicatesSkipped, taskData, pendingTaskId, failedTasks, simVars, resolveVars>>

-----------------------------------------------------------------------------
(* createNoteInTwenty and linkNoteToPersonREST *)

NoteResponses == {"ok", "error", "noId"}
LinkResponses == {"ok", "error"}

\* lines 252-258 and 265-276: the error createNoteInTwenty throws for a response
noteError(r) ==
    IF r = "error" THEN "Failed to create note"
    ELSE IF r = "noId" THEN "Note created but ID not found in response"
    ELSE "<none>"

NoteResponds ==
    /\ pc = "await_note"
    /\ \E r \in NoteResponses :
         IF noteError(r) # "<none>"
         THEN Throw(noteError(r)) /\ calls' = Resolved(r) /\ noteId' = noteId
         ELSE /\ noteId' = "note-1"
              /\ IF getTwentyApiConfig(env) # "<none>"
                 THEN Throw(getTwentyApiConfig(env)) /\ calls' = Resolved(r)
                 ELSE Issue(Resolved(r), "noteLink", 0, NotFound, Absent, "await_noteLink")
    /\ UNCHANGED <<env, params, analysis, allTasks, idx, taskIds, createdTasks,
                   duplicatesSkipped, taskData, pendingTaskId, failedTasks,
                   completion, simVars, resolveVars>>

noteLinkError_swallowed(r) == "<none>"

\* lines 202-213: linkNoteToPersonREST rethrows a failed link request
noteLinkError(r) ==
    IF r = "error" THEN "Failed to link note to person" ELSE "<none>"

\* lines 421-426: a commitment as a candidate task
commitmentTask(commitment) ==
    [title |-> FollowUpPrefix \o
                 (IF commitment.commitment = UndefinedStr THEN UndefinedText
                  ELSE commitment.commitment),
     assignee |-> commitment.person,
     dueDate |-> orEmpty(commitment.dueDate)]

\* lines 428-434: action items first, then the commitment tasks
allTasksOf(actionItems, commitments) ==
    actionItems \o [i \in 1..Len(commitments) |-> commitmentTask(commitments[i])]

NoteLinkResponds ==
    /\ pc = "await_noteLink"
    /\ \E r \in LinkResponses :
         /\ calls' = Resolved(r)
         /\ IF noteLinkError(r) # "<none>"
            THEN Throw(noteLinkError(r)) /\ UNCHANGED <<allTasks, idx>>
            ELSE /\ allTasks' = allTasksOf(analysis[1].actionItems, analysis[1].commitments)
                 /\ idx' = 1
                 /\ pc' = "loop"
                 /\ outstanding' = NoRequest
                 /\ response' = response
    /\ UNCHANGED <<env, params, analysis, noteId, taskIds, createdTasks,
                   duplicatesSkipped, taskData, pendingTaskId, failedTasks,
                   completion, simVars, resolveVars>>

-----------------------------------------------------------------------------
(* createAllTasks: the loop over the candidates *)

\* lines 438-446: the scan of the created titles; areSimilarTasks calls
\* toLowerCase on both titles, which throws for a title that is undefined
RECURSIVE duplicateScan(_, _, _)
RECURSIVE duplicateScan_exact(_, _, _)
duplicateScan_exact(title, created, k) ==
    IF k > Len(created) THEN "new"
    ELSE IF title = UndefinedStr \/ created[k] = UndefinedStr THEN "TypeError"
    ELSE IF title = created[k] THEN "duplicate"
    ELSE duplicateScan_exact(title, created, k + 1)

duplicateScan(title, created, k) ==
    IF k > Len(created) THEN "new"
    ELSE IF title = UndefinedStr \/ created[k] = UndefinedStr THEN "TypeError"
    ELSE IF areSimilarTasks(title, created[k]) THEN "duplicate"
    ELSE duplicateScan(title, created, k + 1)

\* Set.prototype.add
setAdd(set, value) ==
    IF \E i \in 1..Len(set) : set[i] = value THEN set ELSE Append(set, value)

\* the catch block of createAllTasks: the candidate is logged and left out
AbsorbTaskFailure ==
    /\ failedTasks' = Append(failedTasks, idx)
    /\ idx' = idx + 1
    /\ pc' = "loop"
    /\ outstanding' = NoRequest
    /\ response' = response
    /\ UNCHANGED <<taskIds, createdTasks, pendingTaskId>>

\* lines 453-455: the id is pushed and the title recorded
RecordCreated(id) ==
    /\ taskIds' = Append(taskIds, id)
    /\ createdTasks' = setAdd(createdTasks, allTasks[idx].title)
    /\ idx' = idx + 1
    /\ pc' = "loop"
    /\ outstanding' = NoRequest
    /\ response' = response
    /\ UNCHANGED <<failedTasks, pendingTaskId>>

SendTask_unawaited(log, assigneeId) ==
    LET task == allTasks[idx]
    IN  /\ taskData' = [title |-> task.title, assigneeId |-> assigneeId,
                        dueAt |-> dueAtOf(task.dueDate)]
        /\ Issue(log, "task", idx, assigneeId, dueAtOf(task.dueDate), "loop")

\* lines 342-359: the due date is resolved and the task request goes out
SendTask(log, assigneeId) ==
    LET task == allTasks[idx]
    IN  /\ taskData' = [title |-> task.title, assigneeId |-> assigneeId,
                        dueAt |-> dueAtOf(task.dueDate)]
        /\ Issue(log, "task", idx, assigneeId, dueAtOf(task.dueDate), "await_task")

ExamineCandidate ==
    /\ pc = "loop"
    /\ idx <= Len(allTasks)
    /\ LET task == allTasks[idx]
           scan == duplicateScan(task.title, createdTasks, 1)
       IN  IF scan = "TypeError"
           THEN /\ Throw("TypeError")
                /\ UNCHANGED <<calls, idx, duplicatesSkipped, taskData, failedTasks,
                               taskIds, createdTasks, pendingTaskId>>
           ELSE IF scan = "duplicate"
           THEN /\ duplicatesSkipped' = duplicatesSkipped + 1
                /\ idx' = idx + 1
                /\ UNCHANGED <<pc, outstanding, response, calls, taskData, failedTasks,
                               taskIds, createdTasks, pendingTaskId>>
           ELSE IF getTwentyApiConfig(env) # "<none>"
           THEN AbsorbTaskFailure /\ UNCHANGED <<calls, duplicatesSkipped, taskData>>
           ELSE IF TruthyStr(task.assignee)
           THEN /\ Issue(calls, "lookup", idx, NotFound, Absent, "await_lookup")
                /\ taskData' = [title |-> task.title, assigneeId |-> NotFound,
                                dueAt |-> Absent]
                /\ UNCHANGED <<idx, duplicatesSkipped, failedTasks, taskIds,
                               createdTasks, pendingTaskId>>
           ELSE /\ SendTask(calls, NotFound)
                /\ UNCHANGED <<idx, duplicatesSkipped, failedTasks, taskIds,
                               createdTasks, pendingTaskId>>
    /\ UNCHANGED <<env, params, analysis, noteId, allTasks, completion, simVars, resolveVars>>

\* lines 461 and 586-600: the loop is over and main returns
FinishTasks ==
    /\ pc = "loop"
    /\ idx > Len(allTasks)
    /\ pc' = "done"
    /\ response' = successResponse
    /\ UNCHANGED <<env, params, analysis, noteId, allTasks, idx, taskIds, createdTasks,
                   duplicatesSkipped, taskData, pendingTaskId, outstanding, calls,
                   failedTasks, completion, simVars, resolveVars>>

-----------------------------------------------------------------------------
(* createTaskInTwenty: member lookup, task request, task link *)

Thrown == "<thrown>"

LookupResponses ==
    { [kind |-> k, edges |-> <<>>] : k \in {"error", "malformed"} }
    \cup { [kind |-> "ok", edges |-> m] : m \in MemberListPool }

lookupWorkspaceMemberByName_rethrow(r, name) ==
    IF r.kind \in {"error", "malformed"} THEN Thrown ELSE matchMember(r.edges, name)

\* lines 77-166: a failed request, or a response whose shape makes the scan
\* throw, is caught and answered with null
lookupWorkspaceMemberByName(r, name) ==
    IF r.kind \in {"error", "malformed"} THEN NotFound ELSE matchMember(r.edges, name)

LookupResponds ==
    /\ pc = "await_lookup"
    /\ \E r \in LookupResponses :
         LET assigneeId == lookupWorkspaceMemberByName(r, allTasks[idx].assignee)
         IN  IF assigneeId = Thrown
             THEN AbsorbTaskFailure /\ calls' = Resolved(r.kind) /\ taskData' = taskData
             ELSE /\ SendTask(Resolved(r.kind), assigneeId)
                  /\ UNCHANGED <<idx, failedTasks, taskIds, createdTasks, pendingTaskId>>
    /\ UNCHANGED <<env, params, analysis, noteId, allTasks, duplicatesSkipped,
                   completion, simVars, resolveVars>>

TaskResponses == {"ok", "error", "noId"}

\* lines 363-368 and 377-389: the error createTaskInTwenty throws for a response
taskError(r) ==
    IF r = "error" THEN "Failed to create task"
    ELSE IF r = "noId" THEN "Task created but ID not found in response"
    ELSE "<none>"

TaskResponds ==
    /\ pc = "await_task"
    /\ \E r \in TaskResponses :
         IF taskError(r) # "<none>"
         THEN AbsorbTaskFailure /\ calls' = Resolved(r)
         ELSE IF Truthy(params.relatedPersonId)
         THEN /\ pendingTaskId' = idx
              /\ Issue(Resolved(r), "taskLink", idx, NotFound, Absent, "await_taskLink")
              /\ UNCHANGED <<idx, failedTasks, taskIds, createdTasks>>
         ELSE RecordCreated(idx) /\ calls' = Resolved(r)
    /\ UNCHANGED <<env, params, analysis, noteId, allTasks, duplicatesSkipped,
                   taskData, completion, simVars, resolveVars>>

taskLinkError_rethrown(r) ==
    IF r = "error" THEN "Failed to link task to person" ELSE "<none>"

\* lines 300-309: linkTaskToPersonREST logs a failed link request and returns
taskLinkError(r) == "<none>"

TaskLinkResponds ==
    /\ pc = "await_taskLink"
    /\ \E r \in LinkResponses :
         /\ calls' = Resolved(r)
         /\ IF taskLinkError(r) # "<none>"
            THEN AbsorbTaskFailure
            ELSE /\ taskIds' = Append(taskIds, pendingTaskId)
                 /\ createdTasks' = setAdd(createdTasks, allTasks[idx].title)
                 /\ idx' = idx + 1
                 /\ pc' = "loop"
                 /\ outstanding' = NoRequest
                 /\ response' = response
                 /\ UNCHANGED <<failedTasks, pendingTaskId>>
    /\ UNCHANGED <<env, params, analysis, noteId, allTasks, duplicatesSkipped,
                   taskData, completion, simVars, resolveVars>>

Next ==
    \/ Start
    \/ ModelResponds
    \/ NoteResponds
    \/ NoteLinkResponds
    \/ ExamineCandidate
    \/ LookupResponds
    \/ TaskResponds
    \/ TaskLinkResponds
    \/ FinishTasks

Spec == Init /\ [][Next]_vars

-----------------------------------------------------------------------------
(* areSimilarTasks applied to pairs of titles *)

InitSim ==
    /\ InitPipe(IdleEnv, IdlePayload)
    /\ pc = "off"
    /\ simPc = "args"
    /\ simArgs \in TitlePool \X TitlePool
    /\ simResult = FALSE
    /\ resolvePc = "off" /\ resolveArgs = <<<<>>, <<>>>> /\ resolveResult = NotFound

Compare ==
    /\ simPc = "args"
    /\ simResult' = areSimilarTasks(simArgs[1], simArgs[2])
    /\ simPc' = "done"
    /\ UNCHANGED <<pipeVars, simArgs, resolveVars>>

NextSim == Compare

SpecSim == InitSim /\ [][NextSim]_vars

-----------------------------------------------------------------------------
(* The name matcher applied to member lists and queries *)

\* workspace members the CRM may list; name.firstName and name.lastName may
\* be missing or empty
MemberPool ==
    { [id |-> "m1", firstName |-> Dylan, lastName |-> Field],
      [id |-> "m2", firstName |-> Dylan, lastName |-> Forsythe],
      [id |-> "m3", firstName |-> Field, lastName |-> Dylan],
      [id |-> "m4", firstName |-> UndefinedStr, lastName |-> <<>>],
      [id |-> "m5", firstName |-> Dario, lastName |-> UndefinedStr] }

\* lists of distinct members, at most n long
MemberLists(n) ==
    UNION { { edges \in [1..k -> MemberPool] :
                \A i, j \in 1..k : i # j => edges[i] # edges[j] } : k \in 0..n }

\* assignee and person names the matcher is called with (always truthy)
QueryPool ==
    { Dylan, Field, Dario,
      Dylan \o <<" ">> \o Field,
      <<" ">> \o toLowerCase(Dylan) \o <<" ">>,
      <<"l","a","n">>,
      Dario \o <<" ">> \o Field,
      Forsythe \o <<" ">> \o Dylan,
      Spaces }

InitResolve ==
    /\ InitPipe(IdleEnv, IdlePayload)
    /\ pc = "off"
    /\ simPc = "off" /\ simArgs = <<<<>>, <<>>>> /\ simResult = FALSE
    /\ resolvePc = "args"
    /\ resolveArgs \in MemberLists(MaxMembers) \X QueryPool
    /\ resolveResult = NotFound

Resolve ==
    /\ resolvePc = "args"
    /\ resolveResult' = matchMember(resolveArgs[1], resolveArgs[2])
    /\ resolvePc' = "done"
    /\ UNCHANGED <<pipeVars, simVars, resolveArgs>>

NextResolve == Resolve

SpecResolve == InitResolve /\ [][NextResolve]_vars

-----------------------------------------------------------------------------
(* Properties of the orchestrator, checked under Spec *)

CallsOfKind(kinds) == {i \in DOMAIN calls : calls[i].kind \in kinds}
CreatedIds == {taskIds[i] : i \in DOMAIN taskIds}
CreatedTitles == {createdTasks[i] : i \in DOMAIN createdTasks}
FailedCandidates == {failedTasks[i] : i \in DOMAIN failedTasks}

\* C1: a request is accepted only when the secret is configured and non-empty
\* and the token is present and equal to it; every other request ends with a
\* failure response and no external call at all is made for it.
C1_UnauthorizedNoSideEffects ==
    LET accepted == /\ Truthy(env.WEBHOOK_SECRET_TOKEN)
                    /\ Truthy(params.token)
                    /\ params.token = env.WEBHOOK_SECRET_TOKEN
    IN  /\ ~accepted =>
             /\ calls = <<>>
             /\ pc \in {"start", "done"}
             /\ pc = "done" => ~response.success /\ response.error = "Unauthorized"
        /\ (pc = "done" /\ response.error # "Unauthorized") => accepted

C1_Witness ==
    /\ pc = "done"
    /\ env.WEBHOOK_SECRET_TOKEN = "" /\ params.token = ""
    /\ ~response.success /\ calls = <<>>

\* C2 (as claimed): once createAllTasks has started, a failed task creation
\* contributes no id, every candidate is still processed, and createAllTasks
\* does not fail, so the invocation ends in success, whatever the analysis holds.
C2_CreateAllTasksNeverFails ==
    /\ FailedCandidates \cap CreatedIds = {}
    /\ (idx >= 1 /\ pc = "done") => response.success /\ idx = Len(allTasks) + 1

\* C3: when the note request fails, or the note is created and its link request
\* fails, main ends in failure and no member lookup, task or task-link request
\* is issued in the invocation.
C3_NoteFailureAbortsTasks ==
    \A i \in DOMAIN calls :
        (\/ calls[i].kind = "note" /\ calls[i].result \in {"error", "noId"}
         \/ calls[i].kind = "noteLink" /\ calls[i].result = "error")
        => /\ pc = "done"
           /\ ~response.success
           /\ CallsOfKind({"lookup", "task", "taskLink"}) = {}

C3_Witness ==
    /\ pc = "done"
    /\ ~response.success
    /\ Len(calls) = 3
    /\ calls[3].kind = "noteLink" /\ calls[3].result = "error"
    /\ Len(analysis[1].actionItems) > 0

\* C4: when the analyzer fails (missing base URL, model call error, no content,
\* unparsable content) the invocation ends in failure and no CRM request of any
\* kind has been issued.
C4_AnalyzerFailureNoCrmWrites ==
    LET analyzerFailed ==
            \/ completion # <<>> /\ completion[1].kind \in {"error", "noContent", "notJson"}
            \/ pc = "done" /\ validationError(env, params) = "<none>"
                           /\ ~Truthy(env.GROQ_API_BASE_URL)
    IN  analyzerFailed =>
            /\ pc = "done"
            /\ ~response.success
            /\ CallsOfKind({"note", "noteLink", "lookup", "task", "taskLink"}) = {}

C4_Witness ==
    /\ pc = "done"
    /\ completion # <<>> /\ completion[1].kind = "notJson"
    /\ ~response.success
    /\ Len(calls) = 1 /\ calls[1].kind = "model"

\* C5 (as claimed): analyze fails, and the invocation ends in failure, when the
\* completion service errors, returns no content, or returns content that does
\* not have the shape {summary, keyPoints, actionItems, commitments}; a result
\* is returned only for content of that shape.
C5_AnalyzeValidatesShape ==
    completion # <<>> =>
        LET c == completion[1]
            mustFail == c.kind \in {"error", "noContent", "notJson"} \/ ~WellShaped(c.content)
        IN  /\ mustFail => analysis = <<>> /\ pc = "done" /\ ~response.success
            /\ analysis # <<>> => WellShaped(analysis[1])

\* C6: a task whose creation succeeded and whose link request failed is still
\* returned: its id is in taskIds, its title is in the created-title set, it is
\* not counted as failed, and a successful response lists and counts it.
C6_TaskLinkFailureSwallowed ==
    \A i \in DOMAIN calls :
        (calls[i].kind = "taskLink" /\ calls[i].result = "error")
        => LET k == calls[i].cand
           IN  /\ k \in CreatedIds
               /\ allTasks[k].title \in CreatedTitles
               /\ k \notin FailedCandidates
               /\ (pc = "done" /\ response.success) =>
                      /\ \E j \in DOMAIN response.taskIds : response.taskIds[j] = k
                      /\ response.tasksCreated = Len(response.taskIds)
                      /\ response.tasksCreated = Len(taskIds)

C6_Witness ==
    /\ pc = "done"
    /\ response.success
    /\ \E i \in DOMAIN calls :
          /\ calls[i].kind = "taskLink" /\ calls[i].result = "error"
          /\ \E j \in DOMAIN response.taskIds : response.taskIds[j] = calls[i].cand

-----------------------------------------------------------------------------
(* Properties of areSimilarTasks, checked under SpecSim *)

\* the whitespace-separated words of a title that are longer than 3 characters
titleWords(title) == significantWords(toLowerCase(title))

\* one normalized title contains the other
Contained(task1, task2) ==
    \/ includes(normalize(task1), normalize(task2))
    \/ includes(normalize(task2), normalize(task1))

\* C8: whenever one normalized title contains the other, the duplicate check
\* returns true, in either argument order.
C8_ContainmentIsDuplicate ==
    (simPc = "done" /\ Contained(simArgs[1], simArgs[2]))
    => simResult = TRUE /\ areSimilarTasks(simArgs[2], simArgs[1])

C8_Witness ==
    /\ simPc = "done"
    /\ simArgs = <<DraftTheDeck, DraftTheDeckForReview>>
    /\ simResult = TRUE

\* C9 (as claimed): two titles whose words longer than 3 characters overlap
\* with a Dice ratio above 0.7 are flagged even when neither normalized title
\* contains the other.
C9_OverlapAboveThresholdIsDuplicate ==
    (/\ simPc = "done"
     /\ ~Contained(simArgs[1], simArgs[2])
     /\ titleWords(simArgs[1]) # <<>> /\ titleWords(simArgs[2]) # <<>>
     /\ overlapExceeds(titleWords(simArgs[1]), titleWords(simArgs[2])))
    => simResult = TRUE

\* C10: without containment, titles whose word overlap is 0.7 or lower are not
\* flagged, and neither are titles of which one has no word longer than 3
\* characters left after normalization.
C10_ThresholdIsStrict ==
    (simPc = "done" /\ ~Contained(simArgs[1], simArgs[2])) =>
        /\ ~overlapExceeds(titleWords(simArgs[1]), titleWords(simArgs[2]))
               => simResult = FALSE
        /\ (\/ significantWords(normalize(simArgs[1])) = <<>>
            \/ significantWords(normalize(simArgs[2])) = <<>>)
               => simResult = FALSE

C10_Witness ==
    /\ simPc = "done"
    /\ simArgs = <<SevenOfTenA, SevenOfTenB>>
    /\ ~Contained(SevenOfTenA, SevenOfTenB)
    /\ 20 * Len(commonWords(titleWords(SevenOfTenA), titleWords(SevenOfTenB)))
           = 7 * (Len(titleWords(SevenOfTenA)) + Len(titleWords(SevenOfTenB)))
    /\ simResult = FALSE

-----------------------------------------------------------------------------
(* End-to-end scenarios, checked under Spec *)

AllCallsSucceeded ==
    \A i \in DOMAIN calls : calls[i].result \in {"json", "ok"}

CallsFor(cand) == {i \in DOMAIN calls : calls[i].cand = cand}

\* C11: with the CRM configured and every call succeeding, an analysis holding the action item
\* "Finalize investor deck" and the commitment "finalize investor deck layout"
\* ends with the action item's task created, the commitment's task skipped as
\* a duplicate, duplicatesSkipped = 1, tasksCreated = 1 and one task id.
C11_DuplicateScenario ==
    (/\ pc = "done"
     /\ Truthy(env.TWENTY_API_KEY) /\ Truthy(env.TWENTY_API_URL)
     /\ AllCallsSucceeded
     /\ analysis # <<>> /\ WellShaped(analysis[1])
     /\ Len(analysis[1].actionItems) = 1
     /\ analysis[1].actionItems[1].title = FinalizeInvestorDeck
     /\ Len(analysis[1].commitments) = 1
     /\ analysis[1].commitments[1].commitment = FinalizeInvestorDeckLayout)
    => /\ response.success
       /\ response.duplicatesSkipped = 1
       /\ response.tasksCreated = 1
       /\ response.taskIds = <<1>>
       /\ CallsFor(2) = {}

C11_Witness ==
    /\ pc = "done"
    /\ response.success
    /\ Len(allTasks) = 2
    /\ allTasks[1].title = FinalizeInvestorDeck
    /\ allTasks[2].title = FollowUpPrefix \o FinalizeInvestorDeckLayout
    /\ AllCallsSucceeded
    /\ response.duplicatesSkipped = 1 /\ response.tasksCreated = 1


TokenGood == env.WEBHOOK_SECRET_TOKEN = Secret /\ params.token = Secret
FieldsGood == params.transcript = "text" /\ params.relatedPersonId = "text"
InvalidInputErrors == {"Transcript is required", "relatedPersonId is required"}

\* C13: the first failing check of main decides the outcome, in the order
\* token, transcript and relatedPersonId, model credential, Analyzer, note,
\* tasks. A bad token is Unauthorized whatever else is wrong; a good token with
\* a bad transcript or relatedPersonId is InvalidInput with no external call;
\* the note request follows a parsed completion, the task requests follow a
\* linked note, and success is returned only after the note was created and
\* linked and every candidate was gone through.
C13_ChecksInFixedOrder ==
    /\ pc = "done" =>
          /\ ~TokenGood => response.error = "Unauthorized" /\ calls = <<>>
          /\ (TokenGood /\ ~FieldsGood) =>
                response.error \in InvalidInputErrors /\ calls = <<>>
          /\ (TokenGood /\ FieldsGood /\ env.OPENAI_API_KEY = Undefined) =>
                response.error = "OPENAI_API_KEY is not set" /\ calls = <<>>
          /\ response.success =>
                /\ \E i \in CallsOfKind({"note"}) : calls[i].result = "ok"
                /\ \E i \in CallsOfKind({"noteLink"}) : calls[i].result = "ok"
                /\ idx = Len(allTasks) + 1
                /\ \A i \in DOMAIN calls : calls[i].result # "pending"
    /\ calls # <<>> =>
          /\ TokenGood /\ FieldsGood /\ env.OPENAI_API_KEY # Undefined
          /\ calls[1].kind = "model"
    /\ \A i \in CallsOfKind({"note"}) :
          i = 2 /\ calls[1].result = "json"
    /\ \A i \in CallsOfKind({"noteLink"}) :
          i = 3 /\ calls[2].kind = "note" /\ calls[2].result = "ok"
    /\ \A i \in CallsOfKind({"lookup", "task", "taskLink"}) :
          i > 3 /\ calls[3].kind = "noteLink" /\ calls[3].result = "ok"

C13_Witness ==
    /\ pc = "done"
    /\ params.token = "wrong" /\ env.WEBHOOK_SECRET_TOKEN = Secret
    /\ params.transcript = Undefined
    /\ response.error = "Unauthorized"
    /\ calls = <<>>


-----------------------------------------------------------------------------
(* Properties of the name matcher, checked under SpecResolve *)

\* the tier at which a member matches a query: 1 exact full name, 2 first
\* name, 3 last name, 4 containment, 5 none
TierOf(node, searchName) ==
    IF exactMatch(node, searchName) THEN 1
    ELSE IF firstNameMatch(node, searchName) THEN 2
    ELSE IF lastNameMatch(node, searchName) THEN 3
    ELSE IF partialMatch(node, searchName) THEN 4
    ELSE 5

ResolveEdges == resolveArgs[1]
ResolveQuery == toLowerCase(trim(resolveArgs[2]))
BestTier ==
    IF ResolveEdges = <<>> THEN 5
    ELSE CHOOSE t \in 1..5 :
             /\ \E i \in DOMAIN ResolveEdges : TierOf(ResolveEdges[i], ResolveQuery) = t
             /\ \A i \in DOMAIN ResolveEdges : TierOf(ResolveEdges[i], ResolveQuery) >= t
MembersAtBestTier ==
    {i \in DOMAIN ResolveEdges : TierOf(ResolveEdges[i], ResolveQuery) = BestTier}

\* C14: the tiers are tried in the order exact, first name, last name,
\* containment, each over the whole list: the member returned matches at the
\* highest tier at which any member of the list matches, wherever it stands in
\* the list, and null is returned only when no member matches at any tier.
C14_HigherTierWins ==
    resolvePc = "done" =>
        IF BestTier = 5 THEN resolveResult = NotFound
        ELSE \E i \in MembersAtBestTier : ResolveEdges[i].id = resolveResult

C14_Witness ==
    /\ resolvePc = "done"
    /\ Len(ResolveEdges) = 2
    /\ ResolveEdges[1].id = "m3" /\ ResolveEdges[2].id = "m1"
    /\ resolveArgs[2] = Dylan
    /\ TierOf(ResolveEdges[1], ResolveQuery) = 3
    /\ TierOf(ResolveEdges[2], ResolveQuery) = 2
    /\ resolveResult = "m1"

\* C15: within a tier the first match in list order wins: the id returned is
\* that of the list-earliest member among those matching at the highest
\* matching tier; with Dylan Field and Dylan Forsythe listed and the query
\* "Dylan" it is whichever of the two is listed first.
C15_FirstInListWins ==
    resolvePc = "done" =>
        /\ BestTier # 5 =>
              \E i \in MembersAtBestTier :
                  /\ ResolveEdges[i].id = resolveResult
                  /\ \A j \in MembersAtBestTier : i <= j
        /\ ({ResolveEdges[i].id : i \in DOMAIN ResolveEdges} = {"m1", "m2"}
              /\ resolveArgs[2] = Dylan) =>
              /\ BestTier = 2
              /\ resolveResult = ResolveEdges[1].id

C15_Witness ==
    /\ resolvePc = "done"
    /\ Len(ResolveEdges) = 2
    /\ ResolveEdges[1].id = "m2" /\ ResolveEdges[2].id = "m1"
    /\ resolveArgs[2] = Dylan
    /\ resolveResult = "m2"


\* C20 (as claimed): an id is returned only for a member whose name relates
\* to the query: never for a query that is empty after trimming, and never
\* the id of a member whose first and last name are both empty.
C20_OnlyRelatedNamesMatch ==
    (resolvePc = "done" /\ resolveResult # NotFound) =>
        /\ ResolveQuery # <<>>
        /\ \A i \in DOMAIN ResolveEdges :
              ResolveEdges[i].id = resolveResult => fullNameOf(ResolveEdges[i]) # <<>>


-----------------------------------------------------------------------------
(* Properties of the task loop, checked under Spec *)

Settled(i) == calls[i].result # "pending"
TaskCallKinds == {"lookup", "task", "taskLink"}

\* C16: at most one request is outstanding at any time, and it is the last one
\* issued; the note is created and linked before the first task request; the
\* lookup of a task is answered before its creation request goes out; the
\* requests of a candidate are all answered before the next candidate is
\* examined, so at the head of the loop the outcome of every earlier candidate
\* is known.
C16_CallsStrictlySequential ==
    /\ \A i \in DOMAIN calls :
          ~Settled(i) => i = Len(calls) /\ outstanding = calls[i].kind
    /\ outstanding # NoRequest =>
          calls # <<>> /\ ~Settled(Len(calls)) /\ calls[Len(calls)].kind = outstanding
    /\ \A i \in CallsOfKind(TaskCallKinds) :
          \E j \in 1..(i - 1) : calls[j].kind = "noteLink" /\ calls[j].result = "ok"
    /\ \A i \in CallsOfKind({"lookup"}), j \in CallsOfKind({"task"}) :
          calls[i].cand = calls[j].cand => i < j /\ Settled(i)
    /\ \A i, j \in CallsOfKind(TaskCallKinds) :
          i < j => calls[i].cand <= calls[j].cand
    /\ \A i \in CallsOfKind(TaskCallKinds) : calls[i].cand \in 1..idx
    /\ pc = "loop" =>
          /\ outstanding = NoRequest
          /\ \A i \in DOMAIN calls : Settled(i) /\ calls[i].cand < idx
          /\ \A k \in 1..(idx - 1) :
                k \in CreatedIds <=>
                    \E i \in CallsOfKind({"task"}) : calls[i].cand = k /\ calls[i].result = "ok"

C16_Witness ==
    /\ pc = "loop"
    /\ idx = 2 /\ Len(allTasks) >= 2
    /\ CreatedIds = {1}
    /\ \E i \in CallsOfKind({"lookup"}) : calls[i].cand = 1
    /\ \E i \in CallsOfKind({"taskLink"}) : calls[i].cand = 1 /\ Settled(i)


ActionItemCount == IF analysis = <<>> THEN 0 ELSE Len(analysis[1].actionItems)
CommitmentCount == IF analysis = <<>> THEN 0 ELSE Len(analysis[1].commitments)
IsTitle(title) == title # UndefinedStr

\* C17: at every point of the task loop no two titles of the created-title
\* set are similar, and neither are the titles of two created tasks; the
\* candidates are the action items in input order followed by the commitments
\* in input order, and taskIds keeps that order; a commitment similar to an
\* action item that was created is skipped and causes no request.
C17_NoSimilarTitlesCreated ==
    idx >= 1 =>
        /\ \A i, j \in DOMAIN createdTasks :
              i < j => /\ IsTitle(createdTasks[i]) /\ IsTitle(createdTasks[j])
                       /\ ~areSimilarTasks(createdTasks[i], createdTasks[j])
        /\ Len(createdTasks) = Len(taskIds)
        /\ \A i \in DOMAIN taskIds : createdTasks[i] = allTasks[taskIds[i]].title
        /\ \A i, j \in DOMAIN taskIds : i < j => taskIds[i] < taskIds[j]
        /\ Len(allTasks) = ActionItemCount + CommitmentCount
        /\ \A k \in 1..ActionItemCount :
              allTasks[k].title = analysis[1].actionItems[k].title
        /\ \A k \in 1..CommitmentCount :
              /\ SubSeq(allTasks[ActionItemCount + k].title, 1, Len(FollowUpPrefix))
                    = FollowUpPrefix
              /\ allTasks[ActionItemCount + k].assignee = analysis[1].commitments[k].person
        /\ \A k \in (ActionItemCount + 1)..(idx - 1) :
              \A j \in CreatedIds :
                  (/\ j <= ActionItemCount
                   /\ IsTitle(allTasks[j].title)
                   /\ areSimilarTasks(allTasks[k].title, allTasks[j].title))
                  => k \notin CreatedIds /\ CallsFor(k) = {}

C17_Witness ==
    /\ pc = "done"
    /\ response.success
    /\ ActionItemCount = 1 /\ CommitmentCount = 1
    /\ allTasks[1].title = Deck
    /\ allTasks[2].title = FollowUpPrefix \o LowerDeck
    /\ taskIds = <<1>>
    /\ createdTasks = <<Deck>>
    /\ duplicatesSkipped = 1
    /\ CallsFor(2) = {}


\* C18 (as claimed): every candidate ends created, skipped as a duplicate or
\* failed, so once createAllTasks is over the ids, the skipped and the failed
\* add up to the number of action items and commitments.
C18_EveryCandidateAccounted ==
    (pc = "done" /\ idx >= 1) =>
        Len(taskIds) + duplicatesSkipped + Len(failedTasks)
            = ActionItemCount + CommitmentCount

EmptyNormalized(title) == IsTitle(title) /\ normalize(title) = <<>>
Skipped(k) ==
    /\ k < idx
    /\ k \notin CreatedIds
    /\ k \notin FailedCandidates
    /\ CallsFor(k) = {}

\* C19 (as claimed): a candidate whose title has no letter or digit is skipped
\* as a duplicate whenever a task was created before it, and once a task with
\* such a title was created every later candidate of the run is skipped.
C19_EmptyTitleIsDuplicateOfAll ==
    (pc = "done" /\ idx >= 1) =>
        \A k \in 2..Len(allTasks) :
            (\E j \in CreatedIds :
                /\ j < k
                /\ EmptyNormalized(allTasks[j].title) \/ EmptyNormalized(allTasks[k].title))
            => Skipped(k)

====
